---- MODULE Spec2Model ----
(***************************************************************************)
(* Model of ebpf/redirect.c: the cgroup/connect4 hook redirect_connect4    *)
(* and the single-entry array map map_config it consults.                  *)
(*                                                                         *)
(* A 32-bit address is a tuple of four octets, most significant first      *)
(* (0xA9FEA9FE is <<169, 254, 169, 254>>), because the addresses exceed    *)
(* the integer range of the checker.  The build is little-endian (bpfel),  *)
(* so bpf_ntohl/bpf_htonl reverse the octets and bpf_ntohs/bpf_htons swap  *)
(* the two bytes of a 16-bit value.                                        *)
(*                                                                         *)
(* Invocations of the hook run concurrently.  One invocation is cut into   *)
(* steps at its accesses to the shared field conf->emulator_pid: the load  *)
(* of line 64, the store of line 66 and the comparison of line 77, which   *)
(* the compiler may serve from the value loaded at line 64 or from a       *)
(* second load (the accesses are plain, unsynchronised accesses).          *)
(***************************************************************************)
EXTENDS Integers, Sequences, FiniteSets, TLC

VARIABLES map_config, inv, blocked

vars == <<map_config, inv, blocked>>

\* ---------------------------------------------------------------- bounds
MaxInv == 2
MaxPid == 2

Slots == 1..MaxInv
Pids == 1..MaxPid

\* ------------------------------------------------------------- constants
AF_INET == 2
AF_INET6 == 10
IPPROTO_TCP == 6
IPPROTO_UDP == 17

METADATA_IP == <<169, 254, 169, 254>>
METADATA_PORT == 80
DISCOVERY_IP == <<169, 254, 196, 245>>
DISCOVERY_PORT == 12345

EMULATOR_IP == <<10, 0, 0, 5>>
EMULATOR_PORT == 8080

MsgNone == "none"
MsgNoConfig == "Error: redirect_connect4 called without configuration"
MsgDiscovered == "Discovered emulator PID"
MsgBeforeDiscovery == "Error: redirect_connect4 called before emulator PID discovery"
MsgNotRedirecting == "Not redirecting connection from emulator process"
MsgRedirecting == "Redirecting connection to emulator"

\* ------------------------------------------------------------ byte order
bswap32(x) == <<x[4], x[3], x[2], x[1]>>
bswap16(x) == (x % 256) * 256 + ((x \div 256) % 256)

bpf_ntohl(x) == bswap32(x)
bpf_htonl(x) == bswap32(x)
bpf_ntohs(x) == bswap16(x % 65536)
bpf_htons(x) == bswap16(x % 65536)

\* ------------------------------------------------------------------ data
\* struct Config
Config(pid, ip, port, debug) ==
  [emulator_pid |-> pid, emulator_ip |-> ip, emulator_port |-> port, debug |-> debug]

\* The connect attempts the model draws, <<family, protocol>> and the
\* destination in host byte order: IPv4 TCP attempts to the two reserved
\* destinations, to a reserved address with the other port and to an
\* unrelated destination; UDP and IPv6 attempts to the reserved destinations.
Reserved == {<<METADATA_IP, METADATA_PORT>>, <<DISCOVERY_IP, DISCOVERY_PORT>>}
Dests == Reserved \cup {<<METADATA_IP, DISCOVERY_PORT>>, <<DISCOVERY_IP, METADATA_PORT>>,
                        <<EMULATOR_IP, EMULATOR_PORT>>}
Attempts == ({<<AF_INET, IPPROTO_TCP>>} \X Dests)
            \cup ({<<AF_INET, IPPROTO_UDP>>, <<AF_INET6, IPPROTO_TCP>>} \X Reserved)

\* The state of one invocation: its position, the bpf_sock_addr fields it
\* was called with (ip0, port0) and holds now (user_ip4, user_port), its
\* locals, its return value (-1 while it runs) and the line it printed.
\*   late     : emulator_pid was already set when the invocation started
\*   alone    : no other invocation has stored to the entry since this one
\*              started
\*   reg      : a DISCOVERY attempt of the caller had returned 0 when the
\*              invocation started
Idle ==
  [pc |-> "idle", user_family |-> 0, protocol |-> 0,
   ip0 |-> <<0, 0, 0, 0>>, port0 |-> 0,
   user_ip4 |-> <<0, 0, 0, 0>>, user_port |-> 0,
   dst |-> <<0, 0, 0, 0>>, dst_port |-> 0,
   pid |-> 0, epid |-> 0, ret |-> -1, msg |-> MsgNone,
   late |-> FALSE, alone |-> TRUE, reg |-> FALSE]

\* ---------------------------------------------------------- the hook code
\* the filter of line 33 without its protocol test
NotIPv4(s) == s.user_family # AF_INET

\* line 33: the attempt is not an IPv4 TCP connection
NotIPv4TCP(s) == s.user_family # AF_INET \/ s.protocol # IPPROTO_TCP

IsMetadata(dst, dst_port) == dst = METADATA_IP /\ dst_port = METADATA_PORT
IsDiscovery(dst, dst_port) == dst = DISCOVERY_IP /\ dst_port = DISCOVERY_PORT

\* the filter of line 45 without its port tests
NotReservedAddress(dst, dst_port) == dst # METADATA_IP /\ dst # DISCOVERY_IP

\* line 45: the destination is neither reserved address
NotOfInterest(dst, dst_port) == ~IsMetadata(dst, dst_port) /\ ~IsDiscovery(dst, dst_port)

\* line 52: bpf_map_lookup_elem(&map_config, &key) found the entry
Found(m) == Len(m) > 0

\* the test of line 64 always taken
AlwaysUnregistered(epid) == TRUE

\* the test of line 64 never taken
NeverUnregistered(epid) == FALSE

\* line 64
Unregistered(epid) == epid = 0

\* the test of line 77 never taken
NeverEmulator(pid, epid) == FALSE

\* line 77
IsEmulator(pid, epid) == pid = epid

\* a return with value r: the value loaded from emulator_pid is dead
Return(s, r) == [s EXCEPT !.pc = "done", !.ret = r, !.epid = 0]

\* lines 53-56 without the bpf_printk
NoConfigSilent(s) == Return(s, 1)

\* lines 53-56 returning 0
NoConfigBlocked(s) == Return([s EXCEPT !.msg = MsgNoConfig], 0)

\* lines 53-56
NoConfig(s) == Return([s EXCEPT !.msg = MsgNoConfig], 1)

\* lines 72-73 waiting for the discovery instead of returning
BeforeDiscoveryWaits(s) == s

\* lines 72-73 returning 0
BeforeDiscoveryBlocked(s) == Return([s EXCEPT !.msg = MsgBeforeDiscovery], 0)

\* lines 72-73
BeforeDiscovery(s) == Return([s EXCEPT !.msg = MsgBeforeDiscovery], 1)

\* line 66 without the store
StoreNothing(c, pid) == c

\* line 66 clearing a PID that is already set
StoreOrClear(c, pid) == [c EXCEPT !.emulator_pid = IF @ = 0 THEN pid ELSE 0]

\* line 66 with a store that also clears debug
StoreClearsDebug(c, pid) == [c EXCEPT !.emulator_pid = pid, !.debug = 0]

\* line 66
StorePid(c, pid) == [c EXCEPT !.emulator_pid = pid]

\* lines 67-70 blocking the attempt only when debug is set
DiscoveredInDebug(s, c) ==
  IF c.debug # 0 THEN Return([s EXCEPT !.msg = MsgDiscovered], 0) ELSE Return(s, 1)

\* lines 67-70 without the test of debug
DiscoveredLoud(s, c) == Return([s EXCEPT !.msg = MsgDiscovered], 0)

\* lines 67-70
Discovered(s, c) ==
  Return([s EXCEPT !.msg = IF c.debug # 0 THEN MsgDiscovered ELSE MsgNone], 0)

\* lines 78-81
NotRedirected(s, c) ==
  Return([s EXCEPT !.msg = IF c.debug # 0 THEN MsgNotRedirecting ELSE MsgNone], 1)

\* lines 85-91 without the conversions to network byte order
RedirectedHostOrder(s, c) ==
  Return([s EXCEPT !.user_ip4 = c.emulator_ip,
                   !.user_port = c.emulator_port,
                   !.msg = IF c.debug # 0 THEN MsgRedirecting ELSE MsgNone], 1)

\* lines 85-91
Redirected(s, c) ==
  Return([s EXCEPT !.user_ip4 = bpf_htonl(c.emulator_ip),
                   !.user_port = bpf_htons(c.emulator_port),
                   !.msg = IF c.debug # 0 THEN MsgRedirecting ELSE MsgNone], 1)

\* ------------------------------------------------------------------ Init
Init ==
  /\ map_config \in {<< >>} \cup
       {<<Config(p, EMULATOR_IP, EMULATOR_PORT, d)>> : p \in 0..MaxPid, d \in {0, 1}}
  /\ inv = [i \in Slots |-> Idle]
  /\ blocked = {}

\* --------------------------------------------------------------- actions
\* The kernel calls the hook for a connect() of process pid: ctx holds the
\* destination in network byte order.
Called(a, pid) ==
  LET fp == a[1]
      d == a[2] IN
  [Idle EXCEPT !.pc = "L33", !.user_family = fp[1], !.protocol = fp[2],
               !.ip0 = bpf_htonl(d[1]), !.port0 = bpf_htons(d[2]),
               !.user_ip4 = bpf_htonl(d[1]), !.user_port = bpf_htons(d[2]),
               !.pid = pid]

\* A connect() is served by the first free slot.
Free(v, i) == v[i].pc = "idle" /\ \A j \in 1..(i - 1) : v[j].pc # "idle"

\* lines 37-38
Locals(s) == [s EXCEPT !.dst = bpf_ntohl(s.user_ip4), !.dst_port = bpf_ntohs(s.user_port)]

\* Each step of the hook is a relation between the state (m, v, b) before
\* it and the state (mN, vN, bN) after it: m is the map, v the invocations,
\* b the PIDs whose registration has returned.

\* lines 33-35
FilterProtocolOn(m, v, b, i, mN, vN, bN) ==
  /\ Free(v, i)
  /\ \E a \in Attempts, pid \in Pids :
       LET s == Called(a, pid) IN
       /\ NotIPv4TCP(s)
       /\ vN = [v EXCEPT ![i] = Return([s EXCEPT !.pid = 0], 1)]
  /\ mN = m
  /\ bN = b

\* lines 37-47
FilterAddressOn(m, v, b, i, mN, vN, bN) ==
  /\ Free(v, i)
  /\ \E a \in Attempts, pid \in Pids :
       LET s == Locals(Called(a, pid)) IN
       /\ ~NotIPv4TCP(s)
       /\ NotOfInterest(s.dst, s.dst_port)
       /\ vN = [v EXCEPT ![i] = Return([s EXCEPT !.pid = 0], 1)]
  /\ mN = m
  /\ bN = b

\* lines 49-56
LookupFailsOn(m, v, b, i, mN, vN, bN) ==
  /\ Free(v, i)
  /\ \E a \in Attempts, pid \in Pids :
       LET s == Locals(Called(a, pid)) IN
       /\ ~NotIPv4TCP(s)
       /\ ~NotOfInterest(s.dst, s.dst_port)
       /\ ~Found(m)
       /\ vN = [v EXCEPT ![i] = NoConfig([s EXCEPT !.pid = 0])]
  /\ mN = m
  /\ bN = b

\* lines 49-60: the entry is found and the PID of the caller is read
LookupOn(m, v, b, i, mN, vN, bN) ==
  /\ Free(v, i)
  /\ \E a \in Attempts, pid \in Pids :
       LET s == Locals(Called(a, pid)) IN
       /\ ~NotIPv4TCP(s)
       /\ ~NotOfInterest(s.dst, s.dst_port)
       /\ Found(m)
       /\ vN = [v EXCEPT ![i] = [s EXCEPT !.pc = "L64",
                                          !.late = m[1].emulator_pid # 0,
                                          !.reg = pid \in b]]
  /\ mN = m
  /\ bN = b

\* lines 64-65: emulator_pid is loaded and is 0, the destination is the
\* self-discovery address
LoadUnregisteredDiscoveryOn(m, v, b, i, mN, vN, bN) ==
  /\ v[i].pc = "L64"
  /\ Unregistered(m[1].emulator_pid)
  /\ IsDiscovery(v[i].dst, v[i].dst_port)
  /\ vN = [v EXCEPT ![i] = [@ EXCEPT !.pc = "L66", !.epid = m[1].emulator_pid]]
  /\ mN = m
  /\ bN = b

\* lines 64-65, 72-73: emulator_pid is loaded and is 0, the destination is
\* the metadata server
LoadUnregisteredMetadataOn(m, v, b, i, mN, vN, bN) ==
  /\ v[i].pc = "L64"
  /\ Unregistered(m[1].emulator_pid)
  /\ ~IsDiscovery(v[i].dst, v[i].dst_port)
  /\ vN = [v EXCEPT ![i] = BeforeDiscovery(@)]
  /\ mN = m
  /\ bN = b

\* line 64: emulator_pid is loaded and is not 0
LoadRegisteredOn(m, v, b, i, mN, vN, bN) ==
  /\ v[i].pc = "L64"
  /\ ~Unregistered(m[1].emulator_pid)
  /\ vN = [v EXCEPT ![i] = [@ EXCEPT !.pc = "L77", !.epid = m[1].emulator_pid]]
  /\ mN = m
  /\ bN = b

\* The store of invocation i reaches the invocations that have started.
Stored(v, i, s) ==
  [j \in Slots |-> IF j = i THEN s
                   ELSE IF v[j].pc # "idle" THEN [v[j] EXCEPT !.alone = FALSE]
                   ELSE v[j]]

\* lines 66-70
RegisterOn(m, v, b, i, mN, vN, bN) ==
  /\ v[i].pc = "L66"
  /\ mN = <<StorePid(m[1], v[i].pid)>>
  /\ vN = Stored(v, i, Discovered(v[i], m[1]))
  /\ bN = b \cup {v[i].pid}

\* line 77: the value compared is the one loaded at line 64 or a new load
Compared(m, v, i) == {v[i].epid, m[1].emulator_pid}

\* lines 77-82
SelfExemptOn(m, v, b, i, mN, vN, bN) ==
  /\ v[i].pc = "L77"
  /\ \E e \in Compared(m, v, i) :
       /\ IsEmulator(v[i].pid, e)
       /\ vN = [v EXCEPT ![i] = NotRedirected(@, m[1])]
  /\ mN = m
  /\ bN = b

\* lines 77, 84-91
RedirectOn(m, v, b, i, mN, vN, bN) ==
  /\ v[i].pc = "L77"
  /\ \E e \in Compared(m, v, i) :
       /\ ~IsEmulator(v[i].pid, e)
       /\ vN = [v EXCEPT ![i] = Redirected(@, m[1])]
  /\ mN = m
  /\ bN = b

\* The verdict is handed to the kernel; the slot serves the next connect().
FinishOn(m, v, b, i, mN, vN, bN) ==
  /\ v[i].pc = "done"
  /\ vN = [v EXCEPT ![i] = Idle]
  /\ mN = m
  /\ bN = b

\* One step of invocation i, as a relation between two states.
StepOn(m, v, b, i, mN, vN, bN) ==
  \/ FilterProtocolOn(m, v, b, i, mN, vN, bN)
  \/ FilterAddressOn(m, v, b, i, mN, vN, bN)
  \/ LookupFailsOn(m, v, b, i, mN, vN, bN)
  \/ LookupOn(m, v, b, i, mN, vN, bN)
  \/ LoadUnregisteredDiscoveryOn(m, v, b, i, mN, vN, bN)
  \/ LoadUnregisteredMetadataOn(m, v, b, i, mN, vN, bN)
  \/ LoadRegisteredOn(m, v, b, i, mN, vN, bN)
  \/ RegisterOn(m, v, b, i, mN, vN, bN)
  \/ SelfExemptOn(m, v, b, i, mN, vN, bN)
  \/ RedirectOn(m, v, b, i, mN, vN, bN)
  \/ FinishOn(m, v, b, i, mN, vN, bN)

\* The steps, taken on the variables.
FilterProtocol(i) ==
  FilterProtocolOn(map_config, inv, blocked, i, map_config', inv', blocked')
FilterAddress(i) ==
  FilterAddressOn(map_config, inv, blocked, i, map_config', inv', blocked')
LookupFails(i) ==
  LookupFailsOn(map_config, inv, blocked, i, map_config', inv', blocked')
Lookup(i) ==
  LookupOn(map_config, inv, blocked, i, map_config', inv', blocked')
LoadUnregisteredDiscovery(i) ==
  LoadUnregisteredDiscoveryOn(map_config, inv, blocked, i, map_config', inv', blocked')
LoadUnregisteredMetadata(i) ==
  LoadUnregisteredMetadataOn(map_config, inv, blocked, i, map_config', inv', blocked')
LoadRegistered(i) ==
  LoadRegisteredOn(map_config, inv, blocked, i, map_config', inv', blocked')
Register(i) ==
  RegisterOn(map_config, inv, blocked, i, map_config', inv', blocked')
SelfExempt(i) ==
  SelfExemptOn(map_config, inv, blocked, i, map_config', inv', blocked')
Redirect(i) ==
  RedirectOn(map_config, inv, blocked, i, map_config', inv', blocked')
Finish(i) ==
  FinishOn(map_config, inv, blocked, i, map_config', inv', blocked')

\* The steps an invocation that has passed the lookup takes on its own.
Proceed(i) ==
  \/ LoadUnregisteredDiscovery(i)
  \/ LoadUnregisteredMetadata(i)
  \/ LoadRegistered(i)
  \/ Register(i)
  \/ SelfExempt(i)
  \/ Redirect(i)

redirect_connect4(i) ==
  \/ FilterProtocol(i)
  \/ FilterAddress(i)
  \/ LookupFails(i)
  \/ Lookup(i)
  \/ Proceed(i)

Next == \E i \in Slots : redirect_connect4(i) \/ Finish(i)

Spec == Init /\ [][Next]_vars

\* The hook runs to completion once it is entered: an invocation that has
\* passed the lookup takes its next step.
FairSpec == Spec /\ \A i \in Slots : WF_vars(Proceed(i))

\* ---------------------------------------------------------------- claims
\* The attempt as the caller made it, in host byte order.
IPv4TCP(s) == s.user_family = AF_INET /\ s.protocol = IPPROTO_TCP
ToMetadata(s) == bpf_ntohl(s.ip0) = METADATA_IP /\ bpf_ntohs(s.port0) = METADATA_PORT
ToDiscovery(s) == bpf_ntohl(s.ip0) = DISCOVERY_IP /\ bpf_ntohs(s.port0) = DISCOVERY_PORT
Untouched(s) == s.user_ip4 = s.ip0 /\ s.user_port = s.port0
Done(s) == s.pc = "done"
\* emulator_pid is p and no other invocation has stored to it since s started
PidThroughout(s, p) == Found(map_config) /\ s.alone /\ map_config[1].emulator_pid = p

\* C1: an IPv4 TCP attempt to METADATA by caller Q, made while the entry is
\* present with emulator_pid = P, P # 0 and Q # P, returns 1 with its
\* destination, in host byte order, equal to (emulator_ip, emulator_port).
C1_OthersRedirected ==
  \A i \in Slots : \A p \in Pids :
    (Done(inv[i]) /\ IPv4TCP(inv[i]) /\ ToMetadata(inv[i])
       /\ PidThroughout(inv[i], p) /\ inv[i].pid # p)
    => /\ inv[i].ret = 1
       /\ bpf_ntohl(inv[i].user_ip4) = map_config[1].emulator_ip
       /\ bpf_ntohs(inv[i].user_port) = map_config[1].emulator_port

C1_Witness ==
  \E i \in Slots : \E p \in Pids :
    /\ Done(inv[i]) /\ IPv4TCP(inv[i]) /\ ToMetadata(inv[i])
    /\ PidThroughout(inv[i], p) /\ inv[i].pid # p
    /\ bpf_ntohl(inv[i].user_ip4) = EMULATOR_IP
    /\ bpf_ntohs(inv[i].user_port) = EMULATOR_PORT

\* C2: an IPv4 TCP attempt to METADATA by caller P, made while the entry is
\* present with emulator_pid = P, returns 1 and leaves the destination as
\* it was.
C2_SelfExemption ==
  \A i \in Slots :
    (Done(inv[i]) /\ IPv4TCP(inv[i]) /\ ToMetadata(inv[i])
       /\ PidThroughout(inv[i], inv[i].pid))
    => inv[i].ret = 1 /\ Untouched(inv[i])

C2_Witness ==
  \E i \in Slots :
    /\ Done(inv[i]) /\ IPv4TCP(inv[i]) /\ ToMetadata(inv[i])
    /\ PidThroughout(inv[i], inv[i].pid)
    /\ inv[i].ret = 1 /\ Untouched(inv[i])

\* C3: an IPv4 TCP attempt to DISCOVERY by PID P that starts with the
\* entry present and emulator_pid = 0, and during which no other invocation
\* stores to the entry, returns 0, and the entry then holds emulator_pid = P.
C3_Discovery ==
  \A i \in Slots :
    (Done(inv[i]) /\ IPv4TCP(inv[i]) /\ ToDiscovery(inv[i])
       /\ Found(map_config) /\ ~inv[i].late /\ inv[i].alone)
    => inv[i].ret = 0 /\ map_config[1].emulator_pid = inv[i].pid

C3_Witness ==
  \E i \in Slots :
    /\ Done(inv[i]) /\ IPv4TCP(inv[i]) /\ ToDiscovery(inv[i])
    /\ Found(map_config) /\ ~inv[i].late /\ inv[i].alone
    /\ inv[i].ret = 0 /\ map_config[1].emulator_pid = inv[i].pid

\* C4: emulator_pid is set exactly once: once it is not 0, no attempt
\* overwrites it with another PID, also when several first-time DISCOVERY
\* attempts from distinct PIDs run at once.
C4_SetOnce ==
  [][(Found(map_config) /\ map_config[1].emulator_pid # 0)
       => map_config'[1].emulator_pid = map_config[1].emulator_pid]_vars

\* C5: a DISCOVERY attempt that starts when emulator_pid is not 0 leaves
\* emulator_pid as it is, in each of its steps.
C5_Idempotent ==
  [][\A i \in Slots :
       (inv[i].late /\ IsDiscovery(inv[i].dst, inv[i].dst_port)
          /\ inv'[i].pc # inv[i].pc)
       => map_config' = map_config]_vars

C5_Witness ==
  \E i \in Slots :
    /\ Done(inv[i]) /\ inv[i].late /\ ToDiscovery(inv[i])
    /\ map_config[1].emulator_pid # 0

\* C6: an attempt whose destination is DISCOVERY is never redirected: its
\* destination is never rewritten, whatever the entry and the caller.
C6_DiscoveryNotRedirected ==
  \A i \in Slots :
    (Done(inv[i]) /\ ToDiscovery(inv[i])) => Untouched(inv[i])

\* C7: an IPv4 TCP attempt whose destination is neither exactly METADATA
\* nor exactly DISCOVERY returns 1 with its destination as it was, whatever
\* the entry.
C7_OtherDestinationsAllowed ==
  \A i \in Slots :
    (Done(inv[i]) /\ IPv4TCP(inv[i]) /\ ~ToMetadata(inv[i]) /\ ~ToDiscovery(inv[i]))
    => inv[i].ret = 1 /\ Untouched(inv[i])

C7_Witness ==
  \E i \in Slots :
    /\ Done(inv[i]) /\ IPv4TCP(inv[i]) /\ inv[i].ret = 1
    /\ bpf_ntohl(inv[i].ip0) = DISCOVERY_IP /\ bpf_ntohs(inv[i].port0) = METADATA_PORT
    /\ Found(map_config) /\ map_config[1].emulator_pid # 0

\* C8: an attempt that is not IPv4 or not TCP returns 1 with its destination
\* as it was, also to METADATA or DISCOVERY, whatever the entry.
C8_OtherProtocolsAllowed ==
  \A i \in Slots :
    (Done(inv[i]) /\ ~IPv4TCP(inv[i])) => inv[i].ret = 1 /\ Untouched(inv[i])

C8_Witness ==
  \E i \in Slots :
    /\ Done(inv[i]) /\ inv[i].protocol = IPPROTO_UDP /\ ToDiscovery(inv[i])
    /\ Found(map_config) /\ map_config[1].emulator_pid = 0
    /\ inv[i].ret = 1

\* C9: with no entry, an IPv4 TCP attempt to METADATA returns 1 with its
\* destination as it was, and the missing-configuration line is printed.
C9_NoConfigAllowed ==
  \A i \in Slots :
    (Done(inv[i]) /\ IPv4TCP(inv[i]) /\ ToMetadata(inv[i]) /\ ~Found(map_config))
    => inv[i].ret = 1 /\ Untouched(inv[i]) /\ inv[i].msg = MsgNoConfig

C9_Witness ==
  \E i \in Slots :
    /\ Done(inv[i]) /\ IPv4TCP(inv[i]) /\ ToMetadata(inv[i]) /\ ~Found(map_config)
    /\ inv[i].msg = MsgNoConfig

\* C10: an IPv4 TCP attempt to METADATA that finds emulator_pid = 0 returns
\* 1 with its destination as it was, leaves the entry as it is and prints
\* the before-discovery line.
C10_PrematureAccess ==
  [][\A i \in Slots :
       (inv[i].pc = "L64" /\ IsMetadata(inv[i].dst, inv[i].dst_port)
          /\ map_config[1].emulator_pid = 0 /\ inv'[i].pc # inv[i].pc)
       => /\ Done(inv'[i]) /\ inv'[i].ret = 1 /\ Untouched(inv'[i])
          /\ inv'[i].msg = MsgBeforeDiscovery
          /\ map_config' = map_config]_vars

C10_Witness ==
  \E i \in Slots :
    /\ Done(inv[i]) /\ IPv4TCP(inv[i]) /\ ToMetadata(inv[i])
    /\ Found(map_config) /\ map_config[1].emulator_pid = 0
    /\ inv[i].ret = 1 /\ inv[i].msg = MsgBeforeDiscovery

\* C11: an invocation returns 0 only from the store of lines 66-70, that is
\* for an IPv4 TCP attempt to DISCOVERY that loaded emulator_pid = 0 from a
\* present entry; every other return is 1.
C11_FailOpen ==
  [][\A i \in Slots :
       (inv[i].pc # "done" /\ Done(inv'[i]))
       => /\ inv'[i].ret \in {0, 1}
          /\ inv'[i].ret = 0
               => /\ inv[i].pc = "L66" /\ inv[i].epid = 0
                  /\ IPv4TCP(inv[i]) /\ ToDiscovery(inv[i])
                  /\ Found(map_config)]_vars

C11_Witness ==
  \E i, j \in Slots :
    /\ Done(inv[i]) /\ inv[i].ret = 0 /\ IPv4TCP(inv[i]) /\ ToDiscovery(inv[i])
    /\ Done(inv[j]) /\ inv[j].ret = 1 /\ inv[j].msg = MsgBeforeDiscovery

\* C12 as claimed: with debug = 0 the only line an invocation prints is the
\* missing-configuration line.
C12_OnlyMissingConfigUngated ==
  \A i \in Slots :
    (Done(inv[i]) /\ inv[i].msg \notin {MsgNone, MsgNoConfig})
    => Found(map_config) /\ map_config[1].debug # 0

\* C12 amended: with debug = 0 the only lines an invocation prints are the
\* two error lines, missing configuration and called before discovery; the
\* discovered, not-redirecting and redirecting lines need debug set.
C12_DebugGated ==
  \A i \in Slots :
    (Done(inv[i]) /\ inv[i].msg \notin {MsgNone, MsgNoConfig, MsgBeforeDiscovery})
    => Found(map_config) /\ map_config[1].debug # 0

C12_Witness ==
  \E i, j \in Slots :
    /\ Found(map_config) /\ map_config[1].debug = 0
    /\ Done(inv[i]) /\ inv[i].ret = 0 /\ inv[i].msg = MsgNone
    /\ Done(inv[j]) /\ ~Untouched(inv[j]) /\ inv[j].msg = MsgNone

\* C13 as claimed: the engine runs in the simplified mode, in which no
\* attempt returns 0 and every IPv4 TCP attempt to METADATA with the entry
\* present is redirected to (emulator_ip, emulator_port), the emulator's own
\* included.
RedirectedToEmulator(s) ==
  /\ bpf_ntohl(s.user_ip4) = map_config[1].emulator_ip
  /\ bpf_ntohs(s.user_port) = map_config[1].emulator_port

C14_RegisteredIsTerminal ==
  [][(Found(map_config) /\ map_config[1].emulator_pid # 0)
       => (Found(map_config') /\ map_config'[1].emulator_pid # 0)]_vars

C14_Witness ==
  \E i \in Slots :
    /\ Done(inv[i]) /\ inv[i].ret = 0 /\ ~inv[i].alone
    /\ map_config[1].emulator_pid \notin {0, inv[i].pid}

\* C15: no step adds or removes the entry or changes emulator_ip,
\* emulator_port or debug; a step changes emulator_pid only as the store of
\* an invocation whose destination is DISCOVERY and that loaded
\* emulator_pid = 0, and the value stored is the PID of its caller.
C15_Frame ==
  [][/\ Found(map_config') <=> Found(map_config)
     /\ Found(map_config)
          => /\ map_config'[1].emulator_ip = map_config[1].emulator_ip
             /\ map_config'[1].emulator_port = map_config[1].emulator_port
             /\ map_config'[1].debug = map_config[1].debug
     /\ map_config' # map_config
          => \E i \in Slots :
               /\ inv[i].pc = "L66" /\ inv[i].epid = 0 /\ ToDiscovery(inv[i])
               /\ Done(inv'[i])
               /\ map_config'[1].emulator_pid = inv[i].pid]_vars

C15_Witness ==
  \E i \in Slots :
    /\ Done(inv[i]) /\ inv[i].ret = 0 /\ ToDiscovery(inv[i])
    /\ map_config[1].emulator_pid = inv[i].pid
    /\ map_config[1].emulator_ip = EMULATOR_IP
    /\ map_config[1].emulator_port = EMULATOR_PORT
    /\ map_config[1].debug = 1

\* C16: an invocation that has passed the lookup can always take its next
\* step, whatever the other invocations do, each of its steps moves it
\* forward, and it returns.
InHook(s) == s.pc \in {"L64", "L66", "L77"}
Position(s) ==
  CASE s.pc = "idle" -> 0
    [] s.pc = "L64" -> 1
    [] s.pc \in {"L66", "L77"} -> 2
    [] s.pc = "done" -> 3

C16_Terminates ==
  /\ \A i \in Slots : [](InHook(inv[i]) => ENABLED <<Proceed(i)>>_vars)
  /\ [][\A i \in Slots :
          (InHook(inv[i]) /\ inv'[i].pc # inv[i].pc)
          => Position(inv'[i]) > Position(inv[i])]_vars
  /\ \A i \in Slots : InHook(inv[i]) ~> (Done(inv[i]) /\ inv[i].ret \in {0, 1})

C16_Witness ==
  \E i, j \in Slots :
    /\ Done(inv[i]) /\ inv[i].ret = 0 /\ ~inv[i].alone
    /\ InHook(inv[j])

\* C17: a process whose DISCOVERY attempt has returned 0 is not redirected
\* on a METADATA attempt it starts afterwards: the attempt returns 1 with
\* its destination as it was.
C17_RegistrantNotRedirected ==
  \A i \in Slots :
    (Done(inv[i]) /\ IPv4TCP(inv[i]) /\ ToMetadata(inv[i]) /\ inv[i].reg)
    => inv[i].ret = 1 /\ Untouched(inv[i])

\* C18: a destination is rewritten only when emulator_pid is not 0.
C18_RegistrationFirst ==
  \A i \in Slots :
    (Done(inv[i]) /\ ~Untouched(inv[i]))
    => Found(map_config) /\ map_config[1].emulator_pid # 0

C18_Witness ==
  \E i \in Slots :
    /\ Done(inv[i]) /\ ~Untouched(inv[i])
    /\ IPv4TCP(inv[i]) /\ ToMetadata(inv[i]) /\ ~inv[i].late
    /\ map_config[1].emulator_pid # 0

\* C19: from the state that differs only in debug, the same step of the
\* same invocation leads to the state that differs only in debug and in
\* the line printed: verdict, destination, emulator_pid, emulator_ip and
\* emulator_port are the same.
OtherDebug(m) == IF Found(m) THEN <<[m[1] EXCEPT !.debug = 1 - @]>> ELSE m
Lines == {MsgNone, MsgNoConfig, MsgDiscovered, MsgBeforeDiscovery,
          MsgNotRedirecting, MsgRedirecting}

C19_DebugObservational ==
  [][\E i \in Slots : \E x \in Lines :
       StepOn(OtherDebug(map_config), inv, blocked, i,
              OtherDebug(map_config'), [inv' EXCEPT ![i].msg = x], blocked')]_vars

C19_Witness ==
  \E i, j \in Slots :
    /\ Found(map_config) /\ map_config[1].debug = 1
    /\ Done(inv[i]) /\ inv[i].ret = 0 /\ inv[i].msg = MsgDiscovered
    /\ Done(inv[j]) /\ ~Untouched(inv[j]) /\ inv[j].msg = MsgRedirecting

====
